---- MODULE Spec2Model ----
(***************************************************************************)
(* State-machine model of openr's PersistentStore                          *)
(* (openr/config-store/PersistentStore.cpp): a key-value store served over *)
(* a REP socket, kept in memory and written to one file, either inline     *)
(* (no backoff configured) or from a debouncing timer with exponential     *)
(* backoff.                                                                *)
(***************************************************************************)
EXTENDS Naturals, Integers, Sequences, FiniteSets, TLC

(* ------------------------------ bounds -------------------------------- *)
MaxInitialBackoff == 1
MaxBackoffBound == 2
MaxWrites == 2
MaxPending == 2

\* request keys and values (byte strings in the program)
Keys == {1, 2}
Values == {1, 2}

\* std::string default value "" (thrift default for key / data fields)
EmptyString == 0

Min(a, b) == IF a <= b THEN a ELSE b

(* --------------------------- database image --------------------------- *)
\* thrift::StoreDatabase::keyVals : std::map<string,string>
EmptyDatabase == [k \in {} |-> EmptyString]
Images == UNION {[S -> Values] : S \in SUBSET Keys}

HasKey(db, k) == k \in DOMAIN db

\* database_.keyVals[key] = data
MapAssign(db, k, v) == [x \in (DOMAIN db) \cup {k} |-> IF x = k THEN v ELSE db[x]]

\* database_.keyVals.erase(key)
MapErase(db, k) == [x \in (DOMAIN db) \ {k} |-> db[x]]

(* ------------------------------ encoding ------------------------------ *)
\* The file is a sequence of tokens: the map size, then key,value for every
\* entry in ascending key order (std::map iteration), then a stop marker.
StopMarker == 0

RECURSIVE SerializeEntries(_, _)
SerializeEntries(db, ks) ==
  IF ks = {} THEN <<>>
  ELSE LET k == CHOOSE x \in ks : \A y \in ks : x <= y
       IN <<k, db[k]>> \o SerializeEntries(db, ks \ {k})

\* serializer_.serialize(database_, &queue)
Serialize(db) == <<Cardinality(DOMAIN db)>> \o SerializeEntries(db, DOMAIN db) \o <<StopMarker>>

\* whether serializer_.deserialize accepts the bytes (otherwise it throws):
\* a stop marker alone is a struct with no field, read as the empty map;
\* otherwise the announced entries and the stop marker after them must be
\* there; what follows the stop marker is not read
Decodable(bytes) ==
  \/ bytes = <<StopMarker>>
  \/ /\ Len(bytes) >= 2
     /\ Len(bytes) >= 2 * bytes[1] + 2
     /\ bytes[2 * bytes[1] + 2] = StopMarker

\* mutant: the value of an entry is read at the position of its key
DeserializeValueOffByOne(bytes) ==
  LET n == bytes[1]
      ks == {bytes[2 * i] : i \in 1..n}
  IN [k \in ks |-> k]

\* serializer_.deserialize(ioBuf.get(), newDatabase): entries are inserted in
\* file order, a later entry for the same key overriding an earlier one
Deserialize(bytes) ==
  LET n == bytes[1]
      ks == {bytes[2 * i] : i \in 1..n}
      lastIdx(k) == CHOOSE i \in 1..n :
                      /\ bytes[2 * i] = k
                      /\ \A j \in 1..n : bytes[2 * j] = k => j <= i
  IN [k \in ks |-> bytes[2 * lastIdx(k) + 1]]

\* bytes that are no encoding of any image
Garbage == <<7>>

\* an encoding cut short: two entries announced, one present, no stop marker
Truncated == <<2, 1, 1>>

(* ------------------------------- files -------------------------------- *)
NoFile == [exists |-> FALSE, data |-> <<>>]
FileOf(bytes) == [exists |-> TRUE, data |-> bytes]

Prefixes(bytes) == {SubSeq(bytes, 1, n) : n \in 0..Len(bytes)}

(* --------------------------- configuration ---------------------------- *)
\* saveInitialBackoff, saveMaxBackoff: any two durations
Configs ==
  {[initial |-> i, max |-> m] : i \in 0..MaxInitialBackoff, m \in 0..MaxBackoffBound}

\* mutant: the backoff object exists only when both durations are non-zero
BackoffEnabledBothNonZero(cfg) == cfg.initial # 0 /\ cfg.max # 0

\* if (saveInitialBackoff != 0ms or saveMaxBackoff != 0ms): the backoff
\* object and the timer exist
BackoffEnabled(cfg) == cfg.initial # 0 \/ cfg.max # 0

(* ------------------ ExponentialBackoff (Backoff State) ----------------- *)
\* current delay right after construction: the initial delay
BackoffNew(cfg) == cfg.initial

\* reportSuccess(): the streak is cleared, the current delay is the initial one
ReportSuccess(cfg, cur) == cfg.initial

\* mutant: doubling without the ceiling
ReportErrorUncapped(cfg, cur) == 2 * cur

\* reportError(): the current delay doubles, up to the maximum
ReportError(cfg, cur) == Min(cfg.max, 2 * cur)

\* getTimeRemainingUntilRetry(): the delay the next flush is scheduled with
GetTimeRemainingUntilRetry(cfg, cur) == cur

(* ----------------------- Atomic Persistence Layer ---------------------- *)
\* folly::writeFileAtomic(path, data) that returns: the canonical path holds
\* the whole data, the temporary file is gone
WriteFileAtomic(file, bytes) == FileOf(bytes)

\* folly::writeFileAtomic that throws: the canonical path is untouched
WriteFileFailed(file, bytes) == file

\* mutant: the data is written in place, so a crash leaves any prefix of it
WriteFileInPlaceCrash(file, bytes) == {FileOf(p) : p \in Prefixes(bytes)}

\* the process dies inside folly::writeFileAtomic: what the canonical path
\* may hold afterwards. Until the rename the data (any prefix of it) is in a
\* temporary file and the path is untouched; after it the path holds it all.
WriteFileAtomicCrash(file, bytes) == {file, FileOf(bytes)}

\* no call of saveDatabaseToDisk
NoSave(file, n) ==
  [ok |-> FALSE, disk |-> file, numWrites |-> n, attempts |-> 0]

\* mutant: the counter is incremented for every attempt
SaveDatabaseToDiskCountsAttempts(db, file, n, io) ==
  IF io
    THEN [ok |-> TRUE, disk |-> WriteFileAtomic(file, Serialize(db)),
          numWrites |-> n + 1, attempts |-> 1]
    ELSE [ok |-> FALSE, disk |-> WriteFileFailed(file, Serialize(db)),
          numWrites |-> n + 1, attempts |-> 1]

\* mutant: the catch block falls through to return true
SaveDatabaseToDiskSwallowsError(db, file, n, io) ==
  IF io
    THEN [ok |-> TRUE, disk |-> WriteFileAtomic(file, Serialize(db)),
          numWrites |-> n + 1, attempts |-> 1]
    ELSE [ok |-> TRUE, disk |-> WriteFileFailed(file, Serialize(db)),
          numWrites |-> n, attempts |-> 1]

\* saveDatabaseToDisk(): io is whether the write succeeds
SaveDatabaseToDisk(db, file, n, io) ==
  IF io
    THEN [ok |-> TRUE, disk |-> WriteFileAtomic(file, Serialize(db)),
          numWrites |-> n + 1, attempts |-> 1]
    ELSE [ok |-> FALSE, disk |-> WriteFileFailed(file, Serialize(db)),
          numWrites |-> n, attempts |-> 1]

\* mutant: the bytes are decoded straight into database_, which keeps the
\* entries read before the decoding failed
LoadDatabaseFromDiskInPlace(db, file, readable) ==
  IF ~file.exists \/ ~readable THEN [ok |-> FALSE, db |-> db]
  ELSE IF ~Decodable(file.data)
    THEN [ok |-> FALSE,
          db |-> LET n == (Len(file.data) - 1) \div 2
                 IN [k \in {file.data[2 * i] : i \in 1..n} |->
                       file.data[2 * (CHOOSE i \in 1..n : file.data[2 * i] = k) + 1]]]
  ELSE [ok |-> TRUE, db |-> Deserialize(file.data)]

\* loadDatabaseFromDisk(): readable is whether folly::readFile can read the
\* file; on any failure database_ keeps the value it had
LoadDatabaseFromDisk(db, file, readable) ==
  IF ~file.exists \/ ~readable THEN [ok |-> FALSE, db |-> db]
  ELSE IF ~Decodable(file.data) THEN [ok |-> FALSE, db |-> db]
  ELSE [ok |-> TRUE, db |-> Deserialize(file.data)]

(* -------------------------- request handling -------------------------- *)
\* a request that recvThriftObj could not decode
BadRequest ==
  [decoded |-> FALSE, requestType |-> "UNKNOWN", key |-> EmptyString,
   data |-> EmptyString]

Requests ==
  {[decoded |-> TRUE, requestType |-> "STORE", key |-> k, data |-> v] :
     k \in Keys, v \in Values}
  \cup {[decoded |-> TRUE, requestType |-> t, key |-> k, data |-> EmptyString] :
     t \in {"LOAD", "ERASE", "UNKNOWN"}, k \in Keys}
  \cup {BadRequest}

NoRequest ==
  [decoded |-> FALSE, requestType |-> "NONE", key |-> EmptyString,
   data |-> EmptyString]

\* thrift::StoreResponse, default constructed
DefaultResponse == [key |-> EmptyString, success |-> FALSE, data |-> EmptyString]

\* mutant: insert that keeps the value of a key already present
HandleStoreNoOverride(db, req) ==
  [db |-> IF HasKey(db, req.key) THEN db ELSE MapAssign(db, req.key, req.data),
   resp |-> [key |-> req.key, success |-> TRUE, data |-> EmptyString]]

\* case STORE: override previous value if any
HandleStore(db, req) ==
  [db |-> MapAssign(db, req.key, req.data),
   resp |-> [key |-> req.key, success |-> TRUE, data |-> EmptyString]]

\* case LOAD
HandleLoad(db, req) ==
  [db |-> db,
   resp |-> [key |-> req.key, success |-> HasKey(db, req.key),
             data |-> IF HasKey(db, req.key) THEN db[req.key] ELSE EmptyString]]

\* mutant: ERASE answers success whether or not the key was present
HandleEraseAlwaysSuccess(db, req) ==
  [db |-> MapErase(db, req.key),
   resp |-> [key |-> req.key, success |-> TRUE, data |-> EmptyString]]

\* case ERASE
HandleErase(db, req) ==
  [db |-> MapErase(db, req.key),
   resp |-> [key |-> req.key, success |-> HasKey(db, req.key),
             data |-> EmptyString]]

\* mutant: the default branch of the switch answers success
HandleRequestUnknownSucceeds(db, req) ==
  IF ~req.decoded THEN [db |-> db, resp |-> DefaultResponse]
  ELSE IF req.requestType = "STORE" THEN HandleStore(db, req)
  ELSE IF req.requestType = "LOAD" THEN HandleLoad(db, req)
  ELSE IF req.requestType = "ERASE" THEN HandleErase(db, req)
  ELSE [db |-> db,
        resp |-> [key |-> req.key, success |-> TRUE, data |-> EmptyString]]

\* the part of processRequest that builds the response (decode error and
\* the switch over requestType)
HandleRequest(db, req) ==
  IF ~req.decoded THEN [db |-> db, resp |-> DefaultResponse]
  ELSE IF req.requestType = "STORE" THEN HandleStore(db, req)
  ELSE IF req.requestType = "LOAD" THEN HandleLoad(db, req)
  ELSE IF req.requestType = "ERASE" THEN HandleErase(db, req)
  ELSE [db |-> db,
        resp |-> [key |-> req.key, success |-> FALSE, data |-> EmptyString]]

\* mutant: the decode-error path does not return after its response
RequestPathNoReturn(req) ==
  IF ~req.decoded
    THEN <<"recv", "send_error", "switch", "persist", "send">>
    ELSE <<"recv", "switch", "persist", "send">>

\* the statements of processRequest a request passes through, in order:
\* recvThriftObj; on a decode error the send of the failure response and
\* the return; otherwise the switch over requestType, the block that
\* schedules the save, and the send at the end
RequestPath(req) ==
  IF ~req.decoded
    THEN <<"recv", "send_error", "return">>
    ELSE <<"recv", "switch", "persist", "send">>

OnPath(path, stmt) == \E i \in DOMAIN path : path[i] = stmt

\* calls of sendThriftObj made for one request: the send sites on its path
\* (straight-line code: a site is passed at most once)
ResponsesSent(req) ==
  LET path == RequestPath(req)
  IN (IF OnPath(path, "send_error") THEN 1 ELSE 0)
       + (IF OnPath(path, "send") THEN 1 ELSE 0)

\* responses that reach the client: sendThriftObj returns an error (sendOk
\* false), which is logged, or the response is sent
ResponsesDelivered(req, sendOk) == IF sendOk THEN ResponsesSent(req) ELSE 0

\* mutant: a successful LOAD schedules a save like a mutation
WantsSaveAlsoOnLoad(req, resp) == req.decoded /\ resp.success

\* if (response.success and requestType != LOAD)
WantsSave(req, resp) ==
  req.decoded /\ resp.success /\ req.requestType # "LOAD"

\* mutant: the timer is never armed
PersistDecisionNeverArms(enabled, scheduled) ==
  IF ~enabled THEN "sync" ELSE "none"

\* mutant: every mutation saves inline
PersistDecisionAlwaysSync(enabled, scheduled) == "sync"

\* mutant: without a backoff object nothing is saved
PersistDecisionNoInlineSave(enabled, scheduled) ==
  IF ~enabled THEN "none"
  ELSE IF ~scheduled THEN "arm"
  ELSE "none"

\* mutant: the test of isScheduled() is inverted
PersistDecisionInverted(enabled, scheduled) ==
  IF ~enabled THEN "sync"
  ELSE IF scheduled THEN "arm"
  ELSE "none"

\* mutant: the timer is scheduled again although it is scheduled
PersistDecisionRearms(enabled, scheduled) ==
  IF ~enabled THEN "sync" ELSE "arm"

\* the persistence decision of processRequest: save inline when there is no
\* backoff object, arm the timer when it is not scheduled, else nothing
PersistDecision(enabled, scheduled) ==
  IF ~enabled THEN "sync"
  ELSE IF ~scheduled THEN "arm"
  ELSE "none"

\* mutant: a failed save is reported but no next try is scheduled
SaveDbTimerCallbackNoRetry(cfg, cur, saveOk) ==
  IF saveOk
    THEN [currentBackoff |-> ReportSuccess(cfg, cur),
          timerScheduled |-> FALSE, timerDelay |-> 0]
    ELSE [currentBackoff |-> ReportError(cfg, cur),
          timerScheduled |-> FALSE, timerDelay |-> 0]

\* mutant: a successful save is not reported to the backoff
SaveDbTimerCallbackNoReset(cfg, cur, saveOk) ==
  IF saveOk
    THEN [currentBackoff |-> cur, timerScheduled |-> FALSE, timerDelay |-> 0]
    ELSE [currentBackoff |-> ReportError(cfg, cur),
          timerScheduled |-> TRUE,
          timerDelay |-> GetTimeRemainingUntilRetry(cfg, ReportError(cfg, cur))]

\* the saveDbTimer_ callback after saveDatabaseToDisk() returned saveOk:
\* report to the backoff and, on failure, schedule the next try
SaveDbTimerCallback(cfg, cur, saveOk) ==
  IF saveOk
    THEN [currentBackoff |-> ReportSuccess(cfg, cur),
          timerScheduled |-> FALSE, timerDelay |-> 0]
    ELSE [currentBackoff |-> ReportError(cfg, cur),
          timerScheduled |-> TRUE,
          timerDelay |-> GetTimeRemainingUntilRetry(cfg, ReportError(cfg, cur))]

\* mutant: the final save sits inside the isRunning() test
DestructorSaveIfRunning(running, db, file, n, io) ==
  IF running THEN SaveDatabaseToDisk(db, file, n, io) ELSE NoSave(file, n)

\* ~PersistentStore(): after the loop is stopped (when it was running), one
\* unconditional saveDatabaseToDisk()
DestructorSave(running, db, file, n, io) == SaveDatabaseToDisk(db, file, n, io)

(* ------------------------------- state -------------------------------- *)
VARIABLES
  config,             \* saveInitialBackoff, saveMaxBackoff
  phase,              \* "init" (constructed), "running", "stopping"
                      \* (eventLoop_.stop() was called, by stop() or by
                      \* the destructor, and the caller waits), "stopped",
                      \* "destroyed", "crashed"
  database,           \* database_.keyVals
  disk,               \* the file at storageFilePath_
  numOfWritesToDisk,  \* numOfWritesToDisk_
  currentBackoff,     \* the backoff's current delay
  timerScheduled,     \* saveDbTimer_->isScheduled()
  timerDelay,         \* the delay the timer was last scheduled with
  last,               \* what the last step did: request, response, saves
  pending,            \* acknowledged mutations no successful save has covered
  diskImage           \* the image whose encoding was last promoted to the path

vars == <<config, phase, database, disk, numOfWritesToDisk,
          currentBackoff, timerScheduled, timerDelay, last, pending,
          diskImage>>

\* the record of a step: its kind, the request received and the response(s)
\* sent, the calls of saveDatabaseToDisk it made and their result, the number
\* of uncovered mutations and the timer delay it found (covered, prevDelay),
\* for a construction whether the file could be read and was loaded, and
\* whether the step put a new file at the storage path (promoted), and the
\* calls of saveDbTimer_->scheduleTimeout it made (arms); responses counts
\* the calls of sendThriftObj, delivered those that returned no error
Step(kind, req, resp, responses, sv, covered) ==
  [kind |-> kind, req |-> req, resp |-> resp, responses |-> responses,
   saves |-> sv.attempts, saveOk |-> sv.ok, covered |-> covered,
   prevDelay |-> 0, readable |-> TRUE, loaded |-> FALSE,
   promoted |-> sv.ok, arms |-> 0, delivered |-> 0]

Alive == phase \in {"init", "running", "stopping", "stopped"}

\* the loop thread delivers events: it runs, or it was asked to stop and has
\* not stopped yet
Serving == phase \in {"running", "stopping"}
Debounced == BackoffEnabled(config)

NoStepResponse == DefaultResponse

(* --------------------------- construction ----------------------------- *)
\* files the storage path may hold before the service is first constructed
InitialFiles ==
  {NoFile, FileOf(Garbage), FileOf(Truncated)}
    \cup {FileOf(Serialize(i)) : i \in Images}

\* PersistentStore::PersistentStore: the state of a freshly constructed
\* service over the file at the storage path
Constructed(cfg, file, readable) ==
  LET ld == LoadDatabaseFromDisk(EmptyDatabase, file, readable)
  IN [database |-> ld.db,
      loaded |-> ld.ok,
      numOfWritesToDisk |-> 0,
      currentBackoff |-> IF BackoffEnabled(cfg) THEN BackoffNew(cfg) ELSE 0,
      timerScheduled |-> FALSE,
      timerDelay |-> 0]

Init ==
  /\ config \in Configs
  /\ disk \in InitialFiles
  /\ \E readable \in BOOLEAN :
       LET c == Constructed(config, disk, readable)
       IN /\ database = c.database
          /\ numOfWritesToDisk = c.numOfWritesToDisk
          /\ currentBackoff = c.currentBackoff
          /\ timerScheduled = c.timerScheduled
          /\ timerDelay = c.timerDelay
          /\ last = [Step("construct", NoRequest, NoStepResponse, 0,
                          NoSave(disk, 0), 0)
                       EXCEPT !.readable = readable, !.loaded = c.loaded]
  /\ phase = "init"
  /\ pending = 0
  /\ diskImage = {}

(* ------------------------------ actions ------------------------------- *)
\* run(): the event loop starts delivering socket and timer events, for the
\* first time or again after stop()
Run ==
  /\ phase \in {"init", "stopped"}
  /\ phase' = "running"
  /\ last' = Step("run", NoRequest, NoStepResponse, 0,
                  NoSave(disk, numOfWritesToDisk), 0)
  /\ UNCHANGED <<config, database, disk, numOfWritesToDisk,
                 currentBackoff, timerScheduled, timerDelay, pending,
                 diskImage>>

\* processRequest(): one request received on the socket and taken along its
\* path; an inline save succeeds or fails (io), and so does the send of the
\* response (sendOk)
ProcessRequest(req) ==
  /\ Serving
  /\ LET path == RequestPath(req)
         h == IF OnPath(path, "switch")
                THEN HandleRequest(database, req)
                ELSE [db |-> database, resp |-> DefaultResponse]
         decision == IF OnPath(path, "persist") /\ WantsSave(req, h.resp)
                       THEN PersistDecision(Debounced, timerScheduled)
                       ELSE "none"
         saves == IF decision = "sync"
                    THEN {SaveDatabaseToDisk(h.db, disk, numOfWritesToDisk, io) :
                            io \in BOOLEAN}
                    ELSE {NoSave(disk, numOfWritesToDisk)}
     IN \E sv \in saves, sendOk \in BOOLEAN :
        /\ sv.numWrites <= MaxWrites
        /\ database' = h.db
        /\ disk' = sv.disk
        /\ numOfWritesToDisk' = sv.numWrites
        /\ timerScheduled' = (timerScheduled \/ decision = "arm")
        /\ timerDelay' = IF decision = "arm"
                           THEN GetTimeRemainingUntilRetry(config, currentBackoff)
                           ELSE timerDelay
        /\ pending' = IF sv.ok THEN 0
                      ELSE IF WantsSave(req, h.resp)
                        THEN Min(pending + 1, MaxPending)
                      ELSE pending
        /\ diskImage' = IF sv.ok THEN {h.db} ELSE diskImage
        /\ last' = [Step("request", req, h.resp, ResponsesSent(req), sv, 0)
                      EXCEPT !.arms = IF decision = "arm" THEN 1 ELSE 0,
                             !.delivered = ResponsesDelivered(req, sendOk)]
  /\ UNCHANGED <<config, phase, currentBackoff>>

\* the saveDbTimer_ callback: the timer fired
TimerFire(io) ==
  /\ Serving
  /\ timerScheduled
  /\ LET sv == SaveDatabaseToDisk(database, disk, numOfWritesToDisk, io)
         cb == SaveDbTimerCallback(config, currentBackoff, sv.ok)
     IN /\ sv.numWrites <= MaxWrites
        /\ disk' = sv.disk
        /\ numOfWritesToDisk' = sv.numWrites
        /\ currentBackoff' = cb.currentBackoff
        /\ timerScheduled' = cb.timerScheduled
        /\ timerDelay' = cb.timerDelay
        /\ pending' = IF sv.ok THEN 0 ELSE pending
        /\ diskImage' = IF sv.ok THEN {database} ELSE diskImage
        /\ last' = [Step("timer", NoRequest, NoStepResponse, 0, sv, pending)
                      EXCEPT !.prevDelay = timerDelay,
                             !.arms = IF cb.timerScheduled THEN 1 ELSE 0]
  /\ UNCHANGED <<config, phase, database>>

\* stop() while the loop thread is between callbacks: the loop stops and
\* the call returns; the object lives on and the timer stays as it is
Stop ==
  /\ phase = "running"
  /\ phase' = "stopped"
  /\ last' = Step("stop", NoRequest, NoStepResponse, 0,
                  NoSave(disk, numOfWritesToDisk), 0)
  /\ UNCHANGED <<config, database, disk, numOfWritesToDisk,
                 currentBackoff, timerScheduled, timerDelay, pending,
                 diskImage>>

\* eventLoop_.stop(), called by stop() or by the destructor that found the
\* loop running, while the loop thread has callbacks to finish: the loop is
\* asked to stop and the caller waits in waitUntilStopped()
StopRequest ==
  /\ phase = "running"
  /\ phase' = "stopping"
  /\ last' = Step("stop_request", NoRequest, NoStepResponse, 0,
                  NoSave(disk, numOfWritesToDisk), 0)
  /\ UNCHANGED <<config, database, disk, numOfWritesToDisk,
                 currentBackoff, timerScheduled, timerDelay, pending,
                 diskImage>>

\* eventLoop_.waitUntilStopped() returns to the caller of stop(): the loop
\* has stopped
WaitUntilStopped ==
  /\ phase = "stopping"
  /\ phase' = "stopped"
  /\ last' = Step("stop", NoRequest, NoStepResponse, 0,
                  NoSave(disk, numOfWritesToDisk), 0)
  /\ UNCHANGED <<config, database, disk, numOfWritesToDisk,
                 currentBackoff, timerScheduled, timerDelay, pending,
                 diskImage>>

\* ~PersistentStore(): if the loop runs, stop(), then saveDatabaseToDisk().
\* From "init" and "stopped" the loop does not run; from "running" the loop
\* thread is between callbacks and stops at once; from "stopping" the
\* destructor's stop() had callbacks to wait for and returns now.
Destroy(io) ==
  /\ Alive
  /\ LET sv == DestructorSave(Serving, database, disk,
                              numOfWritesToDisk, io)
     IN /\ sv.numWrites <= MaxWrites
        /\ disk' = sv.disk
        /\ numOfWritesToDisk' = sv.numWrites
        /\ pending' = IF sv.ok THEN 0 ELSE pending
        /\ diskImage' = IF sv.ok THEN {database} ELSE diskImage
        /\ last' = [Step("destroy", NoRequest, NoStepResponse, 0, sv, pending)
                      EXCEPT !.prevDelay = timerDelay]
  /\ phase' = "destroyed"
  /\ timerScheduled' = FALSE
  /\ timerDelay' = 0
  /\ UNCHANGED <<config, database, currentBackoff>>

\* images a handler that can run now would be writing
InFlightImages ==
  {database} \cup
  (IF Serving /\ ~Debounced
     THEN {HandleRequest(database, r).db :
             r \in {q \in Requests : WantsSave(q, HandleRequest(database, q).resp)}}
     ELSE {})

\* the process dies, possibly inside a write of the file
Crash ==
  /\ Alive
  /\ \E img \in InFlightImages :
       \E out \in WriteFileAtomicCrash(disk, Serialize(img)) :
         /\ disk' = out
         /\ diskImage' = IF out = disk THEN diskImage ELSE {img}
         /\ last' = [Step("crash", NoRequest, NoStepResponse, 0,
                           NoSave(disk, 0), pending)
                        EXCEPT !.promoted = (out # disk)]
  /\ phase' = "crashed"
  /\ database' = EmptyDatabase
  /\ numOfWritesToDisk' = 0
  /\ currentBackoff' = 0
  /\ timerScheduled' = FALSE
  /\ timerDelay' = 0
  /\ pending' = 0
  /\ UNCHANGED config

\* a new service is constructed on the same storage path
Restart ==
  /\ phase \in {"destroyed", "crashed"}
  /\ \E readable \in BOOLEAN :
       LET c == Constructed(config, disk, readable)
       IN /\ database' = c.database
          /\ numOfWritesToDisk' = c.numOfWritesToDisk
          /\ currentBackoff' = c.currentBackoff
          /\ timerScheduled' = c.timerScheduled
          /\ timerDelay' = c.timerDelay
          /\ last' = [Step("construct", NoRequest, NoStepResponse, 0,
                           NoSave(disk, 0), 0)
                        EXCEPT !.readable = readable, !.loaded = c.loaded]
  /\ phase' = "init"
  /\ pending' = 0
  /\ UNCHANGED <<config, disk, diskImage>>

Next ==
  \/ Run
  \/ Stop
  \/ StopRequest
  \/ WaitUntilStopped
  \/ \E req \in Requests : ProcessRequest(req)
  \/ \E io \in BOOLEAN : TimerFire(io)
  \/ \E io \in BOOLEAN : Destroy(io)
  \/ Crash
  \/ Restart

Spec == Init /\ [][Next]_vars

\* the event loop keeps delivering a due timer while it runs
LiveSpec == Init /\ [][Next]_vars /\ WF_vars(\E io \in BOOLEAN : TimerFire(io))

(* ======================================================================= *)
(*                               properties                                *)
(* ======================================================================= *)
Durable == disk = FileOf(Serialize(database))
Dirty == pending > 0
IsRequest(l) == l.kind = "request"
IsMutation(l) == IsRequest(l) /\ WantsSave(l.req, l.resp)
Lookup(db, k) == IF HasKey(db, k) THEN db[k] ELSE EmptyString

\* the last step made a save attempt that failed
FailedSave == last.saves = 1 /\ ~last.saveOk

\* C1: in debounced mode, unless save attempts keep failing for ever, an
\* acknowledged STORE or successful ERASE that no save has covered leads,
\* while the event loop runs, to the file holding the encoding of the
\* in-memory image (or to the write counter reaching the model's cap).
C1_EventuallyDurable ==
  \/ []<>FailedSave
  \/ (Debounced /\ phase = "running" /\ Dirty)
        ~> (Durable \/ phase # "running" \/ numOfWritesToDisk >= MaxWrites)

\* a timer-driven save, after at least one mutation, made the file equal the
\* in-memory image
C1_Witness ==
  /\ Debounced /\ phase = "running"
  /\ last.kind = "timer" /\ last.saveOk /\ last.covered >= 1
  /\ last.prevDelay > config.initial
  /\ Durable /\ ~Dirty

\* C2 (as claimed): every failed save attempt made for a mutation, inline or
\* from the timer, leaves a further attempt scheduled, with the response
\* success=true.
C2_Original ==
  (last.kind \in {"request", "timer"} /\ last.saves = 1 /\ ~last.saveOk)
    => /\ timerScheduled
       /\ (IsRequest(last) => last.resp.success)

\* C2 (amended): a failed timer-driven save reports the error to the backoff
\* and reschedules the timer with the backoff's delay, keeping image, file and
\* uncovered mutations; a failed inline save (synchronous mode) schedules
\* nothing and changes no backoff; in both cases the response to the
\* mutation is success=true.
C2_FailedSaveRetried ==
  [][/\ (last'.kind = "timer" /\ ~last'.saveOk)
          => /\ timerScheduled'
             /\ currentBackoff' = ReportError(config, currentBackoff)
             /\ timerDelay' = currentBackoff'
             /\ database' = database /\ disk' = disk /\ pending' = pending
     /\ (IsRequest(last') /\ last'.saves = 1 /\ ~last'.saveOk)
          => /\ last'.resp.success
             /\ ~Debounced /\ ~timerScheduled'
             /\ currentBackoff' = currentBackoff
             /\ disk' = disk
     /\ (IsRequest(last') /\ last'.req.decoded
           /\ last'.req.requestType = "STORE")
          => last'.resp.success
    ]_vars

\* a timer-driven save failed while mutations were uncovered: retry scheduled
C2_Witness ==
  /\ last.kind = "timer" /\ ~last.saveOk /\ last.covered >= 1
  /\ timerScheduled /\ timerDelay > config.initial

\* C3: in debounced mode no request performs a save or touches the file or
\* the write counter, a request handled while the timer is scheduled leaves
\* the timer as it is, and a firing of the timer performs exactly one save
\* attempt, of the current image, covering all mutations since (one write
\* when it succeeds).
C3_Debounce ==
  [][Debounced =>
      /\ IsRequest(last')
           => /\ last'.saves = 0
              /\ disk' = disk
              /\ numOfWritesToDisk' = numOfWritesToDisk
              /\ timerScheduled
                   => (timerScheduled' /\ timerDelay' = timerDelay
                         /\ currentBackoff' = currentBackoff)
      /\ last'.kind = "timer"
           => /\ last'.saves = 1
              /\ last'.covered = pending
              /\ numOfWritesToDisk' =
                   numOfWritesToDisk + (IF last'.saveOk THEN 1 ELSE 0)
              /\ last'.saveOk => (disk' = FileOf(Serialize(database))
                                    /\ pending' = 0)
    ]_vars

\* two or more mutations since construction, one firing, one write
C3_Witness ==
  /\ Debounced
  /\ last.kind = "timer" /\ last.saveOk /\ last.covered >= 2
  /\ numOfWritesToDisk = 1

\* C4 (as claimed): in synchronous mode, after the response to a STORE or a
\* successful ERASE the file is the encoding of the in-memory image.
C4_Original ==
  (~Debounced /\ IsMutation(last)) => Durable

\* C4 (amended): in synchronous mode a STORE or successful ERASE makes
\* exactly one save attempt before its response; when that attempt succeeds
\* the file is the encoding of the in-memory image including the mutation,
\* when it fails the response is still success=true.
C4_SyncSave ==
  (~Debounced /\ IsMutation(last))
    => /\ last.saves = 1
       /\ last.responses = 1 /\ last.resp.success
       /\ last.saveOk => (Durable /\ ~Dirty)
       /\ last.req.requestType = "STORE"
            => Lookup(database, last.req.key) = last.req.data
       /\ last.req.requestType = "ERASE" => ~HasKey(database, last.req.key)

\* a STORE in synchronous mode whose save succeeded
C4_Witness ==
  /\ ~Debounced /\ IsMutation(last)
  /\ last.req.requestType = "STORE" /\ last.saveOk
  /\ Durable /\ Cardinality(DOMAIN database) = 2

\* C5: every change of the file at the storage path replaces it by the whole
\* encoding of the image being saved (also when the process dies inside the
\* write); a failed save leaves it untouched; once the service has written
\* the file it always decodes.
C5_AtomicPersistence ==
  [][/\ disk' # disk
          => \/ (phase' # "crashed" /\ disk' = FileOf(Serialize(database')))
             \/ (phase' = "crashed"
                   /\ \E img \in InFlightImages : disk' = FileOf(Serialize(img)))
     /\ (last'.saves = 1 /\ ~last'.saveOk) => disk' = disk
     /\ diskImage' # {}
          => (Decodable(disk'.data)
                /\ \E img \in diskImage' : disk' = FileOf(Serialize(img)))
    ]_vars

\* the process died inside a save with mutations uncovered; the path holds a
\* complete image
C5_Witness ==
  /\ phase = "crashed" /\ last.covered >= 1 /\ last.promoted
  /\ disk.exists /\ Decodable(disk.data)
  /\ Cardinality(DOMAIN Deserialize(disk.data)) = 2

\* C6 (as claimed): after destruction the file is the encoding of the last
\* in-memory image.
C6_Original ==
  phase = "destroyed" => Durable

\* C6 (amended): the destructor's request to stop the loop changes nothing
\* but the loop's state: it fires no armed flush and leaves the timer as it
\* is. Once the loop has stopped, destruction makes exactly one save attempt
\* of the in-memory image whatever the timer state (the backoff is not
\* reported to, the counter moves by that one save only); when the attempt
\* succeeds the file is the encoding of the last image, when it fails the
\* file is unchanged.
C6_ShutdownFlush ==
  [][/\ last'.kind \in {"stop", "stop_request"}
          => /\ last'.saves = 0
             /\ timerScheduled' = timerScheduled /\ timerDelay' = timerDelay
             /\ currentBackoff' = currentBackoff
             /\ database' = database /\ disk' = disk
             /\ numOfWritesToDisk' = numOfWritesToDisk
     /\ (phase # "destroyed" /\ phase' = "destroyed")
       => /\ last'.saves = 1
          /\ last'.kind = "destroy"
          /\ database' = database
          /\ currentBackoff' = currentBackoff
          /\ ~timerScheduled'
          /\ numOfWritesToDisk' =
               numOfWritesToDisk + (IF last'.saveOk THEN 1 ELSE 0)
          /\ last'.saveOk => disk' = FileOf(Serialize(database))
          /\ ~last'.saveOk => disk' = disk
    ]_vars

\* destroyed with uncovered mutations: the final save made them durable
C6_Witness ==
  /\ phase = "destroyed" /\ last.kind = "destroy" /\ last.prevDelay > 0
  /\ last.saveOk /\ last.covered >= 1 /\ Debounced
  /\ Durable

\* C7: a service constructed on a path whose file the service wrote, and can
\* read, starts with exactly the image that was saved: same keys, same
\* values, the same answer to every LOAD.
C7_RoundTrip ==
  [][(last'.kind = "construct" /\ last'.readable /\ diskImage # {})
       => /\ last'.loaded
          /\ database' \in diskImage
          /\ \A img \in diskImage :
               /\ DOMAIN database' = DOMAIN img
               /\ \A k \in Keys :
                    HandleLoad(database', [key |-> k]).resp
                      = HandleLoad(img, [key |-> k]).resp
    ]_vars

\* restarted on a saved two-key image
C7_Witness ==
  /\ last.kind = "construct" /\ last.loaded
  /\ diskImage # {} /\ database \in diskImage
  /\ Cardinality(DOMAIN database) = 2

\* C8: a failed flush schedules a retry whose delay is at most the
\* configured maximum and at least the delay of the flush that failed, for
\* every failure of a streak. The first flush of a streak is armed by a
\* mutation with the initial delay; when the service is configured with an
\* initial delay above the maximum, that first delay (the only one above
\* the maximum) is above the delay of every retry.
C8_BackoffGrowthBound ==
  (last.kind = "timer" /\ ~last.saveOk)
    => /\ timerScheduled
       /\ last.arms = 1
       /\ timerDelay <= config.max
       /\ currentBackoff <= config.max
       /\ last.prevDelay <= config.max => timerDelay >= last.prevDelay
       /\ last.prevDelay > config.max
            => (config.initial > config.max /\ last.prevDelay = config.initial)

\* at least two failures in a row: the delay has reached the maximum
C8_Witness ==
  /\ last.kind = "timer" /\ ~last.saveOk
  /\ config.initial > 0 /\ config.max >= 2 * config.initial
  /\ last.prevDelay = config.max /\ timerDelay = config.max

\* C9: a successful timer-driven save leaves the timer unscheduled and the
\* backoff at its initial delay, and every arming by a mutation schedules
\* the timer with the initial delay.
C9_BackoffReset ==
  [][/\ (last'.kind = "timer" /\ last'.saveOk)
          => (~timerScheduled' /\ currentBackoff' = config.initial)
     /\ (IsRequest(last') /\ ~timerScheduled /\ timerScheduled')
          => (IsMutation(last') /\ timerDelay' = config.initial)
    ]_vars

\* a success right after a grown delay
C9_Witness ==
  /\ last.kind = "timer" /\ last.saveOk
  /\ last.prevDelay > config.initial
  /\ ~timerScheduled /\ currentBackoff = config.initial

\* C10: a STORE maps its key to its value, changes no other key, and answers
\* success=true with the key, whether or not a save succeeds; a LOAD answers
\* with the value the image holds; and the value of a key changes only by a
\* STORE or ERASE of that key (or when the service is gone).
C10_Store ==
  [][/\ (IsRequest(last') /\ last'.req.decoded
           /\ last'.req.requestType = "STORE")
          => /\ last'.resp.key = last'.req.key
             /\ last'.resp.success
             /\ last'.responses = 1
             /\ DOMAIN database' = DOMAIN database \cup {last'.req.key}
             /\ database'[last'.req.key] = last'.req.data
             /\ \A k \in Keys \ {last'.req.key} :
                  Lookup(database', k) = Lookup(database, k)
     /\ (IsRequest(last') /\ last'.req.decoded
           /\ last'.req.requestType = "LOAD")
          => /\ last'.resp.key = last'.req.key
             /\ last'.resp.success = HasKey(database, last'.req.key)
             /\ last'.resp.data = Lookup(database, last'.req.key)
             /\ database' = database
     /\ \A k \in Keys :
          (Lookup(database', k) # Lookup(database, k)
             \/ HasKey(database', k) # HasKey(database, k))
            => \/ phase' # "running"
               \/ (IsRequest(last') /\ last'.req.key = k
                     /\ last'.req.requestType \in {"STORE", "ERASE"})
    ]_vars

\* a STORE acknowledged although its inline save failed
C10_Witness ==
  /\ IsRequest(last) /\ last.req.requestType = "STORE"
  /\ last.saves = 1 /\ ~last.saveOk /\ last.resp.success
  /\ Lookup(database, last.req.key) = last.req.data
  /\ Cardinality(DOMAIN database) = 2


\* the step changed nothing of what persistence is made of: image, file,
\* write counter, timer, backoff, uncovered mutations
NoPersistenceEffect ==
  /\ database' = database
  /\ disk' = disk
  /\ numOfWritesToDisk' = numOfWritesToDisk
  /\ timerScheduled' = timerScheduled
  /\ timerDelay' = timerDelay
  /\ currentBackoff' = currentBackoff
  /\ pending' = pending
  /\ last'.saves = 0 /\ last'.arms = 0

IsStep(l, type) == IsRequest(l) /\ l.req.decoded /\ l.req.requestType = type

\* C11: an ERASE answers success=true exactly when its key was present and
\* then the key is gone and no other key changed; an ERASE of an absent key
\* answers success=false, changes nothing, makes no save attempt and arms no
\* timer; a LOAD of a key that is not in the image answers success=false.
C11_Erase ==
  [][/\ IsStep(last', "ERASE")
          => /\ last'.resp.key = last'.req.key
             /\ last'.resp.success = HasKey(database, last'.req.key)
             /\ DOMAIN database' = DOMAIN database \ {last'.req.key}
             /\ \A k \in Keys \ {last'.req.key} :
                  Lookup(database', k) = Lookup(database, k)
             /\ ~HasKey(database, last'.req.key) => NoPersistenceEffect
             /\ HasKey(database, last'.req.key)
                  => (last'.saves + last'.arms + (IF timerScheduled THEN 1 ELSE 0) = 1)
     /\ (IsStep(last', "LOAD") /\ ~HasKey(database, last'.req.key))
          => ~last'.resp.success
    ]_vars

\* an ERASE of an absent key in debounced mode with the timer idle and
\* another key in the image
C11_Witness ==
  /\ IsStep(last, "ERASE") /\ ~last.resp.success
  /\ Debounced /\ ~timerScheduled /\ pending = 0
  /\ database # EmptyDatabase


\* C12: a LOAD answers success=true with the stored value exactly when the
\* key is present (else success=false), and leaves the image, the file, the
\* write counter, the timer and the backoff unchanged: no save attempt, no
\* arming.
C12_LoadReadOnly ==
  [][IsStep(last', "LOAD")
       => /\ last'.resp.key = last'.req.key
          /\ last'.resp.success = HasKey(database, last'.req.key)
          /\ HasKey(database, last'.req.key)
               => last'.resp.data = database[last'.req.key]
          /\ NoPersistenceEffect
          /\ diskImage' = diskImage
    ]_vars

\* a successful LOAD in debounced mode with the timer idle
C12_Witness ==
  /\ IsStep(last, "LOAD") /\ last.resp.success
  /\ last.resp.data = database[last.req.key]
  /\ Debounced /\ ~timerScheduled
  /\ Cardinality(DOMAIN database) = 2

\* C13: a request that fails decoding is answered success=false with the
\* default key, a request with an unknown operation tag is answered
\* success=false; both leave image, file, write counter, timer and backoff
\* unchanged, send one response, and the service goes on serving.
C13_RejectedRequests ==
  [][(IsRequest(last')
        /\ (~last'.req.decoded \/ last'.req.requestType = "UNKNOWN"))
       => /\ ~last'.resp.success
          /\ ~last'.req.decoded => last'.resp.key = EmptyString
          /\ last'.responses = 1
          /\ NoPersistenceEffect
          /\ phase' = phase /\ Serving'
    ]_vars

\* an undecodable request handled while a flush is armed
C13_Witness ==
  /\ IsRequest(last) /\ ~last.req.decoded
  /\ ~last.resp.success /\ last.resp.key = EmptyString
  /\ timerScheduled /\ pending > 0 /\ phase = "running"


\* C14: a construction ends with the service constructed whatever the file;
\* the load fails exactly when the file is missing, cannot be read or does
\* not decode, and then the image is empty; a STORE then holds its value and
\* a successful save leaves a decodable file that is the encoding of the
\* image.
C14_LoadFailureNotFatal ==
  /\ last.kind = "construct"
       => /\ phase = "init"
          /\ last.loaded
               = (disk.exists /\ last.readable /\ Decodable(disk.data))
          /\ ~last.loaded => database = EmptyDatabase
          /\ pending = 0 /\ ~timerScheduled /\ numOfWritesToDisk = 0
  /\ IsStep(last, "STORE")
       => (last.resp.success
             /\ Lookup(database, last.req.key) = last.req.data)
  /\ (last.saves = 1 /\ last.saveOk)
       => (Decodable(disk.data) /\ Deserialize(disk.data) = database)

\* constructed on a file cut short: nothing of it is in the image
C14_Witness ==
  /\ last.kind = "construct" /\ ~last.loaded /\ last.readable
  /\ disk = FileOf(Truncated)
  /\ database = EmptyDatabase /\ phase = "init"


\* C15: a firing of the timer whose save succeeds writes the image as it is
\* when the timer fires: after it the file is the encoding of the current
\* in-memory image and no acknowledged mutation is uncovered.
C15_ConvergenceOnSuccess ==
  [][(last'.kind = "timer" /\ last'.saveOk)
       => /\ database' = database
          /\ disk' = FileOf(Serialize(database'))
          /\ Deserialize(disk'.data) = database'
          /\ pending' = 0
          /\ diskImage' = {database'}
    ]_vars

\* a successful flush that covered mutations handled while it was armed
C15_Witness ==
  /\ last.kind = "timer" /\ last.saveOk /\ last.covered >= 2
  /\ Durable /\ Cardinality(DOMAIN database) = 2

\* C16: in debounced mode a successful mutation handled while the timer is
\* scheduled makes no call of scheduleTimeout and leaves the timer's delay
\* and the backoff as they are; handled while the timer is idle it makes
\* exactly one call, with the backoff's current delay, which is the initial
\* delay; no mutation changes the backoff.
C16_ArmOnce ==
  [][(Debounced /\ IsMutation(last'))
       => /\ timerScheduled
               => /\ last'.arms = 0
                  /\ timerScheduled'
                  /\ timerDelay' = timerDelay
          /\ ~timerScheduled
               => /\ last'.arms = 1
                  /\ timerScheduled'
                  /\ timerDelay' = GetTimeRemainingUntilRetry(config, currentBackoff)
                  /\ timerDelay' = config.initial
          /\ currentBackoff' = currentBackoff
          /\ last'.saves = 0
    ]_vars

\* a mutation handled while a retry with a grown delay is scheduled
C16_Witness ==
  /\ Debounced /\ IsMutation(last) /\ last.arms = 0
  /\ timerScheduled /\ timerDelay > config.initial
  /\ pending >= 2


\* C17: every request handled, whatever its path and whatever the outcome
\* of its save, passes exactly one call of sendThriftObj (one response is
\* produced; it reaches the client unless that call returns an error, and
\* never more than once), and makes at most one save attempt: one when it
\* is a successful mutation and there is no backoff object, none otherwise.
C17_OneResponse ==
  IsRequest(last)
    => /\ last.responses = 1
       /\ last.delivered \in {0, 1}
       /\ last.saves \in {0, 1}
       /\ last.saves = (IF IsMutation(last) /\ ~Debounced THEN 1 ELSE 0)

\* a request that could not be decoded, answered once, the answer received
C17_Witness ==
  /\ IsRequest(last) /\ ~last.req.decoded
  /\ last.responses = 1 /\ last.delivered = 1
  /\ ~last.resp.success /\ last.saves = 0

\* C18: the backoff object and the timer are absent exactly when both
\* durations are zero. Then the timer is never scheduled and never fires and
\* every successful mutation saves inline; with a non-zero duration no
\* request saves inline and a successful mutation leaves the timer scheduled.
C18_ModeSelection ==
  LET disabled == config.initial = 0 /\ config.max = 0
  IN /\ disabled <=> ~Debounced
     /\ disabled
          => /\ ~timerScheduled
             /\ last.kind # "timer"
             /\ last.arms = 0
             /\ IsMutation(last) => last.saves = 1
     /\ ~disabled
          => /\ IsRequest(last) => last.saves = 0
             /\ IsMutation(last) => timerScheduled

\* a zero initial delay with a non-zero maximum: the mutation is debounced
C18_Witness ==
  /\ config.initial = 0 /\ config.max > 0
  /\ IsMutation(last) /\ last.saves = 0 /\ last.arms = 1
  /\ timerScheduled /\ phase = "running"

\* C19: in debounced mode, between steps of the event loop and as long as
\* the object lives (running, being stopped or stopped), an acknowledged
\* mutation that no successful save has covered implies that the timer is
\* scheduled.
C19_NoLostFlush ==
  (Debounced /\ Alive /\ Dirty) => timerScheduled

\* a failed flush left the store dirty with a retry scheduled
C19_Witness ==
  /\ Debounced /\ phase = "running" /\ Dirty /\ timerScheduled
  /\ last.kind = "timer" /\ FailedSave /\ last.arms = 1

\* C20: a failed save leaves the file and the counter as they were, changes
\* the image in memory by nothing but the request's own mutation, and the
\* service goes on (or completes its destruction); a successful save adds
\* exactly one to the counter; a step of the same object without a save
\* leaves the counter alone; a new object starts at zero. So the counter is
\* the number of successful saves of the object and never decreases.
C20_WriteCounter ==
  /\ numOfWritesToDisk = 0
  /\ [][/\ (last'.saves = 1 /\ ~last'.saveOk)
             => /\ disk' = disk
                /\ numOfWritesToDisk' = numOfWritesToDisk
                /\ last'.kind \in {"timer", "destroy"} => database' = database
                /\ IsRequest(last')
                     => database' = HandleRequest(database, last'.req).db
                /\ phase' # "crashed"
        /\ (last'.saves = 1 /\ last'.saveOk)
             => numOfWritesToDisk' = numOfWritesToDisk + 1
        /\ (last'.saves = 0 /\ last'.kind \in {"run", "stop", "stop_request", "request", "timer", "destroy"})
             => numOfWritesToDisk' = numOfWritesToDisk
        /\ last'.kind \in {"run", "stop", "stop_request", "request", "timer", "destroy"}
             => numOfWritesToDisk' >= numOfWritesToDisk
        /\ last'.kind = "construct" => numOfWritesToDisk' = 0
       ]_vars

\* a failed flush after two successful saves
C20_Witness ==
  /\ last.kind = "timer" /\ FailedSave
  /\ numOfWritesToDisk = 2 /\ Dirty /\ phase = "running"

====
